---- MODULE Spec2Model ----
(***************************************************************************)
(* Content Hub (src/src/ContentHub.tsx): the project workflow status       *)
(* machine and the file versioning scheme, together with the in-memory     *)
(* React state (projects, selectedProject), the relational store, the      *)
(* object store and the asynchronous handlers that connect them.           *)
(*                                                                         *)
(* A handler that awaits a network call is split at the await: the part    *)
(* before it is one action, the continuation another.  The continuation    *)
(* sees the values its closure captured when the handler was called        *)
(* (projects, selectedProject), and the current state only through the     *)
(* functional updaters setProjects(prev => ...), setSelectedProject(...).  *)
(***************************************************************************)
EXTENDS Integers, Sequences, FiniteSets, TLC

\* ------------------------------------------------------------------ bounds
MaxProjects == 2      \* project ids the store hands out
MaxFiles    == 2      \* file ids generated in one run
MaxBatch    == 2      \* files in one FileList
MaxInFlight == 2      \* handlers suspended at an await at the same time
MaxWalk     == 4      \* applications of advance in the pure walk
MaxPureFiles == 2     \* files in a list handed to the version helpers
MaxStatusCalls == 1   \* calls of updateProjectStatus in one run
MaxGuidedCalls == 2   \* the same, in a run of the guided actions alone
MaxClients  == 2      \* client ids the store hands out
MaxPosts    == 2      \* post ids the store hands out
MaxFormCalls == 2     \* calls of the form and delete handlers in one run

\* --------------------------------------------------------------- constants
FirstProjectId == 1
FirstFileId    == 1
FirstClientId  == 1
FirstPostId    == 1
NoId           == 0   \* undefined / null id

VARIABLES
  dbProjects,       \* relational store, table projects: id -> stored status
  dbFiles,          \* relational store, table project_files: rows in insertion order
  s3Objects,        \* object store: set of keys
  loading,          \* useState(true): data not loaded yet
  projects,         \* useState<Project[]>: id -> [status, files, version, feedback, details]
  selectedProject,  \* useState<Project | null>: <<>> or <<[id, status, files, ...]>>
  isUploading,      \* useState(false)
  uploadingFiles,   \* useState<string[]>
  uploadProgress,   \* useState<{[key: string]: number}>: name -> percent
  ops,              \* handlers suspended at an await, with their closures
  nextFileId,       \* next fresh file id (Date.now() + random)
  notice,           \* the alert() the last step showed
  pure,             \* inputs and results of the pure helper functions
  statusCalls,      \* calls of updateProjectStatus made so far
  dbProjectData,    \* table projects, other columns: id -> [version, feedback, details]
  dbClients,        \* table clients: id -> details
  dbPosts,          \* table posted_content: id -> details
  clients,          \* useState<Client[]>: id -> details
  postedContent,    \* useState<PostedContent[]>: id -> details
  nextIds,          \* the next id each table hands out
  formCalls         \* calls of the form and delete handlers made so far

\* the clients, the posts and the columns of a project beside its status
recVars == <<dbProjectData, dbClients, dbPosts, clients, postedContent, nextIds,
             formCalls>>

vars == <<dbProjects, dbFiles, s3Objects, loading, projects, selectedProject,
          isUploading, uploadingFiles, uploadProgress, ops, nextFileId, notice, pure, statusCalls,
          recVars>>

appVars == <<dbProjects, dbFiles, s3Objects, loading, projects, selectedProject,
             isUploading, uploadingFiles, uploadProgress, ops, nextFileId, notice, recVars>>

\* ---------------------------------------------------------------- statuses
Statuses == {"draft", "editor_review", "client_review", "needs_revision",
             "approved", "final_delivered"}

NullStatus == "null"            \* a NULL / missing status column
InheritedMember == "[object member]"  \* a member inherited from Object.prototype
Undefined == "undefined"        \* the JavaScript value undefined

\* property names every object literal inherits from Object.prototype
ObjectPrototypeKeys == {"constructor", "toString"}

RawStatuses == Statuses \cup {"in_progress", "pending_review", "archived", "",
                              NullStatus, "constructor"}

statusMap ==
  [k \in {"in_progress", "pending_review", "needs_revision", "approved",
          "draft", "editor_review", "client_review", "final_delivered"} |->
     CASE k = "in_progress"    -> "draft"
       [] k = "pending_review" -> "client_review"
       [] OTHER                -> k]

\* statusMap[oldStatus] || 'draft' : a plain property lookup on an object
\* literal, which also finds the members inherited from Object.prototype
mapOldStatusToNew(oldStatus) ==
  IF oldStatus \in DOMAIN statusMap THEN statusMap[oldStatus]
  ELSE IF oldStatus \in ObjectPrototypeKeys THEN InheritedMember
  ELSE "draft"

workflow ==
  [s \in Statuses |->
     CASE s = "draft"           -> "editor_review"
       [] s = "editor_review"   -> "client_review"
       [] s = "client_review"   -> "approved"
       [] s = "needs_revision"  -> "editor_review"
       [] s = "approved"        -> "final_delivered"
       [] s = "final_delivered" -> "final_delivered"]

\* getNextWorkflowStatus with the resubmission sent straight to the client
getNextWorkflowStatus_resubmitToClient(currentStatus) ==
  IF currentStatus = "needs_revision" THEN "client_review"
  ELSE IF currentStatus \in DOMAIN workflow THEN workflow[currentStatus]
  ELSE Undefined

\* workflow[currentStatus]: undefined for a key the table does not have
getNextWorkflowStatus(currentStatus) ==
  IF currentStatus \in DOMAIN workflow THEN workflow[currentStatus] ELSE Undefined

\* ------------------------------------------------------- version strings
\* A string is a sequence of one-character strings: "1.10" is <<"1",".","1","0">>.
Digits == <<"0", "1", "2", "3", "4", "5", "6", "7", "8", "9">>

DigitVal(c) == (CHOOSE d \in 1..10 : Digits[d] = c) - 1

\* `${n}` for a non-negative integer
RECURSIVE NumToStr(_)
NumToStr(n) ==
  IF n < 10 THEN <<Digits[n + 1]>>
  ELSE NumToStr(n \div 10) \o <<Digits[(n % 10) + 1]>>

\* Number(s) for a string of decimal digits (blank is 0)
RECURSIVE StrToNum(_)
StrToNum(s) ==
  IF s = <<>> THEN 0
  ELSE StrToNum(SubSeq(s, 1, Len(s) - 1)) * 10 + DigitVal(s[Len(s)])

\* s.split('.')
RECURSIVE Split(_)
Split(s) ==
  IF \A i \in 1..Len(s) : s[i] # "." THEN <<s>>
  ELSE LET k == CHOOSE i \in 1..Len(s) :
                  s[i] = "." /\ \A j \in 1..(i - 1) : s[j] # "."
       IN <<SubSeq(s, 1, k - 1)>> \o Split(SubSeq(s, k + 1, Len(s)))

\* const [major, minor] = v.split('.').map(Number)
ParseVersion(v) == <<StrToNum(Split(v)[1]), StrToNum(Split(v)[2])>>

\* character order of a version string: "." sorts before the digits
CharCode(c) == IF c = "." THEN 0 ELSE DigitVal(c) + 1

RECURSIVE StringCompare(_, _)
StringCompare(a, b) ==
  IF a = <<>> /\ b = <<>> THEN 0
  ELSE IF a = <<>> THEN 0 - 1
  ELSE IF b = <<>> THEN 1
  ELSE IF Head(a) # Head(b) THEN CharCode(Head(a)) - CharCode(Head(b))
  ELSE StringCompare(Tail(a), Tail(b))

\* the comparator written as a string comparison, b.localeCompare(a)
compareVersions_asStrings(a, b) == StringCompare(b, a)

\* the comparator of getNextVersion's sort: negative when a sorts before b
compareVersions(a, b) ==
  LET pa == ParseVersion(a)
      pb == ParseVersion(b)
  IN IF pa[1] # pb[1] THEN pb[1] - pa[1] ELSE pb[2] - pa[2]

\* Array.prototype.sort with that comparator (stable insertion)
RECURSIVE InsertSorted(_, _)
InsertSorted(x, sorted) ==
  IF sorted = <<>> THEN <<x>>
  ELSE IF compareVersions(x, Head(sorted)) < 0 THEN <<x>> \o sorted
  ELSE <<Head(sorted)>> \o InsertSorted(x, Tail(sorted))

RECURSIVE SortVersions(_)
SortVersions(vs) ==
  IF vs = <<>> THEN <<>>
  ELSE InsertSorted(vs[Len(vs)], SortVersions(SubSeq(vs, 1, Len(vs) - 1)))

\* files.filter(f => f.name === fileName)
FilterByName(files, fileName) == SelectSeq(files, LAMBDA f : f.name = fileName)

V10 == <<"1", ".", "0">>

getNextVersion(files, fileName) ==
  LET same == FilterByName(files, fileName)
      existingVersions == SortVersions([i \in 1..Len(same) |-> same[i].version])
  IN IF Len(existingVersions) = 0 THEN V10
     ELSE LET latest == ParseVersion(existingVersions[1])
          IN NumToStr(latest[1]) \o <<".">> \o NumToStr(latest[2] + 1)

\* getLatestFileVersion(files, fileName)?.id : NoId when there is none
getLatestFileVersion(files, fileName) ==
  LET flagged == SelectSeq(FilterByName(files, fileName), LAMBDA f : f.isLatest)
  IN IF flagged = <<>> THEN NoId ELSE flagged[1].id

\* ------------------------------------------------------------ small helpers
Names == {"a.mp4", "A.mp4"}        \* file names; they differ only in case

Batches == UNION {[1..n -> Names] : n \in 1..MaxBatch}

NamesIn(files) == {files[k] : k \in 1..Len(files)}

\* setUploadProgress(prev => ({...prev, [name]: percent}))
SetProgress(progress, name, percent) ==
  [n \in DOMAIN progress \cup {name} |-> IF n = name THEN percent ELSE progress[n]]

NoProgress == [n \in {} |-> 0]

RemoveAt(seq, i) == SubSeq(seq, 1, i - 1) \o SubSeq(seq, i + 1, Len(seq))

HasSel == selectedProject # <<>>
Sel == selectedProject[1]
\* selectedProject?.id as a handler's closure sees it
SelId == IF HasSel THEN Sel.id ELSE NoId

NoPure == [fn |-> "off"]

\* key convention projects/{projectId}/{fileId}-{fileName}
S3Key(projectId, fileId, fileName) == <<projectId, fileId, fileName>>

\* ids the relational store generates for project_files rows
DbRowId(k) == 0 - k

\* ------------------------------------------------------------------- load
\* rows of the project, newest first, mapped to ProjectFile
loadFilesForProject(projectId) ==
  LET idx == SelectSeq([k \in 1..Len(dbFiles) |-> Len(dbFiles) + 1 - k],
                       LAMBDA k : dbFiles[k].project_id = projectId)
  IN [j \in 1..Len(idx) |->
        [id |-> DbRowId(idx[j]),
         name |-> dbFiles[idx[j]].name,
         version |-> dbFiles[idx[j]].version,
         isLatest |-> dbFiles[idx[j]].is_latest,
         previousVersionId |-> dbFiles[idx[j]].previous_version_id,
         s3Key |-> dbFiles[idx[j]].s3_key]]

loadProjectsFromSupabase(ok) ==
  IF ok
  THEN [id \in DOMAIN dbProjects |->
          [status |-> mapOldStatusToNew(dbProjects[id]),
           files |-> loadFilesForProject(id),
           version |-> dbProjectData[id].version,
           feedback |-> dbProjectData[id].feedback,
           details |-> dbProjectData[id].details]]
  ELSE <<>>

loadClientsFromSupabase(ok) == IF ok THEN dbClients ELSE <<>>

loadPostedContentFromSupabase(ok) == IF ok THEN dbPosts ELSE <<>>

\* the component's state at mount
ClientInit ==
  /\ loading = TRUE
  /\ projects = <<>>
  /\ selectedProject = <<>>
  /\ isUploading = FALSE
  /\ uploadingFiles = <<>>
  /\ uploadProgress = NoProgress
  /\ ops = <<>>
  /\ notice = "none"
  /\ statusCalls = 0
  /\ clients = <<>>
  /\ postedContent = <<>>
  /\ formCalls = 0

\* a session over a store and a bucket that hold no file yet
AppInit ==
  /\ ClientInit
  /\ dbFiles = <<>>
  /\ s3Objects = {}
  /\ nextFileId = FirstFileId

\* the status a new row would get if the insert left the column to the form
NewProjectStatus_inProgress == "in_progress"

\* the status column of the row saveNewProject inserts
NewProjectStatus == "draft"

NullFeedback == "null"

\* the other columns of the row saveNewProject inserts; details stands for
\* client, title, due date, description and the rest of the form
NewProjectData == [version |-> 1, feedback |-> NullFeedback, details |-> "entered"]

\* the other columns of the stored projects, and no client and no post
OtherTablesInit ==
  /\ dbProjectData = [p \in DOMAIN dbProjects |-> NewProjectData]
  /\ dbClients = <<>>
  /\ dbPosts = <<>>
  /\ nextIds = [project |-> FirstProjectId + Cardinality(DOMAIN dbProjects),
                client |-> FirstClientId, post |-> FirstPostId]

\* the store holds one project of any stored status and, beside it, projects
\* as saveNewProject leaves them
Init ==
  /\ AppInit
  /\ pure = NoPure
  /\ \E r \in RawStatuses :
       dbProjects = [p \in FirstProjectId..MaxProjects |->
                       IF p = FirstProjectId THEN r ELSE NewProjectStatus]
  /\ OtherTablesInit

\* the mount effect: load everything, then leave the loading screen
LoadData ==
  /\ loading
  /\ \E ok \in BOOLEAN : projects' = loadProjectsFromSupabase(ok)
  /\ \E ok \in BOOLEAN : clients' = loadClientsFromSupabase(ok)
  /\ \E ok \in BOOLEAN : postedContent' = loadPostedContentFromSupabase(ok)
  /\ loading' = FALSE
  /\ notice' = "none"
  /\ UNCHANGED <<dbProjects, dbFiles, s3Objects, selectedProject, isUploading,
                 uploadingFiles, uploadProgress, ops, nextFileId, pure, statusCalls,
                 dbProjectData, dbClients, dbPosts, nextIds, formCalls>>

\* ------------------------------------------------------- selecting a project
\* ProjectCard's View button (and the header button's project prompt); the
\* cards lie under the detail modal while a project is selected
ViewProject(p) ==
  /\ ~loading
  /\ ~HasSel
  /\ p \in DOMAIN projects
  /\ selectedProject' = <<[id |-> p, status |-> projects[p].status,
                           files |-> projects[p].files,
                           version |-> projects[p].version,
                           feedback |-> projects[p].feedback,
                           details |-> projects[p].details]>>
  /\ notice' = "none"
  /\ UNCHANGED <<dbProjects, dbFiles, s3Objects, loading, projects, isUploading,
                 uploadingFiles, uploadProgress, ops, nextFileId, pure, statusCalls, recVars>>

CloseDetail ==
  /\ HasSel
  /\ selectedProject' = <<>>
  /\ notice' = "none"
  /\ UNCHANGED <<dbProjects, dbFiles, s3Objects, loading, projects, isUploading,
                 uploadingFiles, uploadProgress, ops, nextFileId, pure, statusCalls, recVars>>

\* ------------------------------------------------------ updateProjectStatus
CanStart == ~loading /\ Len(ops) < MaxInFlight

\* the call up to its await: the request leaves with the closure's selectedProject
updateProjectStatus(projectId, status, via) ==
  /\ CanStart
  /\ statusCalls' = statusCalls + 1
  /\ ops' = Append(ops, [kind |-> "status", pid |-> projectId, status |-> status,
                         via |-> via, cSel |-> SelId, stage |-> "req"])
  /\ notice' = "none"
  /\ UNCHANGED <<dbProjects, dbFiles, s3Objects, loading, projects,
                 selectedProject, isUploading, uploadingFiles, uploadProgress, nextFileId,
                 pure, recVars>>

\* a selector that offers only the step of the advance table
SelectStatus_legalOnly(s) ==
  /\ HasSel
  /\ s \in Statuses
  /\ s = getNextWorkflowStatus(Sel.status)
  /\ updateProjectStatus(Sel.id, s, "select")

\* the free-choice <select>: onChange fires for a value other than the shown one
SelectStatus(s) ==
  /\ HasSel
  /\ s \in Statuses
  /\ s # Sel.status
  /\ updateProjectStatus(Sel.id, s, "select")

\* the workflow button, hidden at final_delivered
AdvanceClick ==
  /\ HasSel
  /\ Sel.status # "final_delivered"
  /\ updateProjectStatus(Sel.id, getNextWorkflowStatus(Sel.status), "advance")

\* the Request Changes button shown in every state but draft
RequestChangesGate_allButDraft(status) == status # "draft"

RequestChangesGate(status) == status = "editor_review" \/ status = "client_review"

RequestChangesClick ==
  /\ HasSel
  /\ RequestChangesGate(Sel.status)
  /\ updateProjectStatus(Sel.id, "needs_revision", "request")

\* ProjectCard's Toggle Status button
ToggleTarget(status) == IF status = "approved" THEN "client_review" ELSE "approved"

ToggleClick(p) ==
  /\ ~HasSel
  /\ p \in DOMAIN projects
  /\ updateProjectStatus(p, ToggleTarget(projects[p].status), "toggle")

\* the store handles the update: a status of undefined is dropped from the
\* request body, so only last_activity is written
StatusServer(i, ok) ==
  /\ i \in DOMAIN ops
  /\ ops[i].kind = "status"
  /\ ops[i].stage = "req"
  /\ ops' = [ops EXCEPT ![i].stage = IF ok THEN "ok" ELSE "err"]
  /\ dbProjects' = IF ok /\ ops[i].pid \in DOMAIN dbProjects
                        /\ ops[i].status # Undefined
                   THEN [dbProjects EXCEPT ![ops[i].pid] = ops[i].status]
                   ELSE dbProjects
  /\ notice' = "none"
  /\ UNCHANGED <<dbFiles, s3Objects, loading, projects, selectedProject,
                 isUploading, uploadingFiles, uploadProgress, nextFileId, pure, statusCalls, recVars>>

\* the continuation after the await
StatusApplyLocal(op) ==
  /\ projects' = [p \in DOMAIN projects |->
                    IF p = op.pid THEN [projects[p] EXCEPT !.status = op.status]
                    ELSE projects[p]]
  /\ selectedProject' =
       IF op.cSel # NoId /\ op.cSel = op.pid /\ HasSel
       THEN <<[Sel EXCEPT !.status = op.status]>>
       ELSE selectedProject
  /\ notice' = "none"

\* an optimistic update that the catch branch does not take back
StatusFailLocal_keepsOptimistic(op) ==
  /\ notice' = "status_failed"
  /\ projects' = [p \in DOMAIN projects |->
                    IF p = op.pid THEN [projects[p] EXCEPT !.status = op.status]
                    ELSE projects[p]]
  /\ UNCHANGED selectedProject

StatusFailLocal(op) ==
  /\ notice' = "status_failed"
  /\ UNCHANGED <<projects, selectedProject>>

StatusResponse(i) ==
  /\ i \in DOMAIN ops
  /\ ops[i].kind = "status"
  /\ ops[i].stage # "req"
  /\ IF ops[i].stage = "ok" THEN StatusApplyLocal(ops[i]) ELSE StatusFailLocal(ops[i])
  /\ ops' = RemoveAt(ops, i)
  /\ UNCHANGED <<dbProjects, dbFiles, s3Objects, loading, isUploading,
                 uploadingFiles, uploadProgress, nextFileId, pure, statusCalls, recVars>>

\* --------------------------------------------------------- handleFileUpload
LastFileId == FirstFileId + MaxFiles - 1

\* the call up to the first await (uploadToS3 of files[0]); existing is the
\* file list of the project in the projects value the closure captured
handleFileUpload(projectId, files) ==
  /\ CanStart
  /\ Len(files) > 0
  /\ nextFileId + Len(files) - 1 <= LastFileId
  /\ isUploading' = TRUE
  /\ uploadingFiles' = files
  /\ uploadProgress' = SetProgress([n \in NamesIn(files) |-> 0], files[1], 10)
  /\ nextFileId' = nextFileId + Len(files)
  /\ ops' = Append(ops,
       [kind |-> "upload", pid |-> projectId, files |-> files, i |-> 1,
        stage |-> "s3", firstId |-> nextFileId, newFiles |-> <<>>,
        existing |-> IF projectId \in DOMAIN projects
                     THEN projects[projectId].files ELSE <<>>,
        cSel |-> SelId])
  /\ notice' = "none"
  /\ UNCHANGED <<dbProjects, dbFiles, s3Objects, loading, projects,
                 selectedProject, pure, statusCalls, recVars>>

\* the detail view's Add Files button, disabled while isUploading
AddFilesClick(files) ==
  /\ HasSel
  /\ ~isUploading
  /\ handleFileUpload(Sel.id, files)

\* the drop zone, rendered while the selected project shows no files
DropFiles(files) ==
  /\ HasSel
  /\ Sel.files = <<>>
  /\ handleFileUpload(Sel.id, files)

\* the header's hidden file input
HeaderUpload(files) ==
  /\ HasSel
  /\ handleFileUpload(Sel.id, files)

FileIdOf(op) == op.firstId + op.i - 1

\* the ProjectFile built for files[i] once its object is stored
NewFileOf(op) ==
  [id |-> FileIdOf(op),
   name |-> op.files[op.i],
   version |-> getNextVersion(op.existing, op.files[op.i]),
   isLatest |-> TRUE,
   previousVersionId |-> getLatestFileVersion(op.existing, op.files[op.i]),
   s3Key |-> S3Key(op.pid, FileIdOf(op), op.files[op.i])]

\* a failure that is caught per file: the loop goes on with the next file
UploadAbort_nextFile(i) ==
  /\ notice' = "upload_failed"
  /\ IF ops[i].i < Len(ops[i].files)
     THEN /\ ops' = [ops EXCEPT ![i].i = @ + 1, ![i].stage = "s3"]
          /\ uploadProgress' =
               SetProgress(uploadProgress, ops[i].files[ops[i].i + 1], 10)
          /\ UNCHANGED <<isUploading, uploadingFiles>>
     ELSE /\ ops' = RemoveAt(ops, i)
          /\ isUploading' = FALSE
          /\ uploadingFiles' = <<>>
          /\ uploadProgress' = NoProgress

\* a catch without the finally: the upload state is reset on success only
UploadAbort_noFinally(i) ==
  /\ notice' = "upload_failed"
  /\ ops' = RemoveAt(ops, i)
  /\ UNCHANGED <<isUploading, uploadingFiles, uploadProgress>>

\* catch + finally: the failure notice and the reset of the upload state
UploadAbort(i) ==
  /\ notice' = "upload_failed"
  /\ isUploading' = FALSE
  /\ uploadingFiles' = <<>>
  /\ uploadProgress' = NoProgress
  /\ ops' = RemoveAt(ops, i)

\* a loop that does not await saveFileToSupabase: after a stored object it
\* goes straight on to the upload of the next file
UploadS3Done_insertNotAwaited(i, ok) ==
  /\ i \in DOMAIN ops
  /\ ops[i].kind = "upload"
  /\ ops[i].stage = "s3"
  /\ IF ok
     THEN /\ s3Objects' = s3Objects \cup {NewFileOf(ops[i]).s3Key}
          /\ ops' = IF ops[i].i < Len(ops[i].files)
                    THEN [ops EXCEPT ![i].newFiles = Append(@, NewFileOf(ops[i])),
                                     ![i].i = @ + 1]
                    ELSE [ops EXCEPT ![i].newFiles = Append(@, NewFileOf(ops[i])),
                                     ![i].stage = "insert"]
          /\ uploadProgress' =
               IF ops[i].i < Len(ops[i].files)
               THEN SetProgress(SetProgress(uploadProgress, ops[i].files[ops[i].i], 100),
                                ops[i].files[ops[i].i + 1], 10)
               ELSE SetProgress(uploadProgress, ops[i].files[ops[i].i], 100)
          /\ notice' = "none"
          /\ UNCHANGED <<isUploading, uploadingFiles>>
     ELSE /\ UploadAbort(i)
          /\ UNCHANGED s3Objects
  /\ UNCHANGED <<dbProjects, dbFiles, loading, projects, selectedProject,
                 nextFileId, pure, statusCalls, recVars>>

\* uploadToS3 returns or throws
UploadS3Done(i, ok) ==
  /\ i \in DOMAIN ops
  /\ ops[i].kind = "upload"
  /\ ops[i].stage = "s3"
  /\ IF ok
     THEN /\ s3Objects' = s3Objects \cup
                {NewFileOf(ops[i]).s3Key}
          /\ ops' = [ops EXCEPT ![i].newFiles = Append(@, NewFileOf(ops[i])),
                                ![i].stage = "insert"]
          /\ uploadProgress' =
               SetProgress(uploadProgress, ops[i].files[ops[i].i], 100)
          /\ notice' = "none"
          /\ UNCHANGED <<isUploading, uploadingFiles>>
     ELSE /\ UploadAbort(i)
          /\ UNCHANGED s3Objects
  /\ UNCHANGED <<dbProjects, dbFiles, loading, projects, selectedProject,
                 nextFileId, pure, statusCalls, recVars>>

\* the row saveFileToSupabase inserts
FileRow(projectId, file) ==
  [project_id |-> projectId, name |-> file.name, version |-> file.version,
   is_latest |-> file.isLatest, previous_version_id |-> file.previousVersionId,
   s3_key |-> file.s3Key]

LowerCase(name) == IF name = "A.mp4" THEN "a.mp4" ELSE name

\* the name comparison done without regard to case
HasNewVersion_ignoreCase(f, newFiles) ==
  \E k \in 1..Len(newFiles) : LowerCase(newFiles[k].name) = LowerCase(f.name)

HasNewVersion(f, newFiles) == \E k \in 1..Len(newFiles) : newFiles[k].name = f.name

\* setProjects(prev => ...) after the loop
MergeFiles(files, newFiles) ==
  [k \in 1..Len(files) |->
     IF HasNewVersion(files[k], newFiles)
     THEN [files[k] EXCEPT !.isLatest = FALSE] ELSE files[k]] \o newFiles

UploadFinish(op) ==
  /\ projects' = [p \in DOMAIN projects |->
                    IF p = op.pid
                    THEN [projects[p] EXCEPT
                            !.files = MergeFiles(projects[p].files, op.newFiles)]
                    ELSE projects[p]]
  /\ selectedProject' =
       IF op.cSel # NoId /\ op.cSel = op.pid /\ HasSel
       THEN <<[Sel EXCEPT !.files = Sel.files \o op.newFiles]>>
       ELSE selectedProject
  /\ notice' = "upload_ok"
  /\ isUploading' = FALSE
  /\ uploadingFiles' = <<>>
  /\ uploadProgress' = NoProgress

\* saveFileToSupabase returns or throws; after the last file the state is updated
UploadInsertDone(i, ok) ==
  /\ i \in DOMAIN ops
  /\ ops[i].kind = "upload"
  /\ ops[i].stage = "insert"
  /\ IF ok
     THEN /\ dbFiles' = Append(dbFiles,
                          FileRow(ops[i].pid, ops[i].newFiles[Len(ops[i].newFiles)]))
          /\ IF ops[i].i < Len(ops[i].files)
             THEN /\ ops' = [ops EXCEPT ![i].i = @ + 1, ![i].stage = "s3"]
                  /\ uploadProgress' =
                       SetProgress(uploadProgress, ops[i].files[ops[i].i + 1], 10)
                  /\ notice' = "none"
                  /\ UNCHANGED <<projects, selectedProject, isUploading,
                                 uploadingFiles>>
             ELSE /\ UploadFinish(ops[i])
                  /\ ops' = RemoveAt(ops, i)
     ELSE /\ UploadAbort(i)
          /\ UNCHANGED <<dbFiles, projects, selectedProject>>
  /\ UNCHANGED <<dbProjects, s3Objects, loading, nextFileId, pure, statusCalls, recVars>>

\* --------------------------------------------------------------- deleteFile
FileWithId(files, fileId) == SelectSeq(files, LAMBDA f : f.id = fileId)

\* a removal that makes the version before a deleted latest file the latest
WithoutFile_promotePrevious(files, fileId) ==
  LET gone == SelectSeq(files, LAMBDA f : f.id = fileId)
      rest == SelectSeq(files, LAMBDA f : f.id # fileId)
  IN [k \in 1..Len(rest) |->
        IF gone # <<>> /\ gone[1].isLatest
           /\ rest[k].id = gone[1].previousVersionId
        THEN [rest[k] EXCEPT !.isLatest = TRUE] ELSE rest[k]]

WithoutFile(files, fileId) == SelectSeq(files, LAMBDA f : f.id # fileId)

\* the two state updates at the end of deleteFile
DeleteApplyLocal(projectId, fileId, cSel) ==
  /\ projects' = [p \in DOMAIN projects |->
                    IF p = projectId
                    THEN [projects[p] EXCEPT !.files = WithoutFile(@, fileId)]
                    ELSE projects[p]]
  /\ selectedProject' =
       IF cSel # NoId /\ cSel = projectId /\ HasSel
       THEN <<[Sel EXCEPT !.files = WithoutFile(@, fileId)]>>
       ELSE selectedProject

\* the X button of a file row in the detail view: deleteFile up to its await,
\* or to its end when the projects list has no such file
DeleteFileClick(fileId) ==
  /\ HasSel
  /\ FileWithId(Sel.files, fileId) # <<>>
  /\ IF Sel.id \in DOMAIN projects
        /\ FileWithId(projects[Sel.id].files, fileId) # <<>>
     THEN /\ CanStart
          /\ ops' = Append(ops,
               [kind |-> "delete", pid |-> Sel.id, fileId |-> fileId,
                key |-> FileWithId(projects[Sel.id].files, fileId)[1].s3Key,
                cSel |-> SelId])
          /\ UNCHANGED <<projects, selectedProject>>
     ELSE /\ DeleteApplyLocal(Sel.id, fileId, SelId)
          /\ UNCHANGED ops
  /\ notice' = "none"
  /\ UNCHANGED <<dbProjects, dbFiles, s3Objects, loading, isUploading,
                 uploadingFiles, uploadProgress, nextFileId, pure, statusCalls, recVars>>

\* deleteFromS3 returns: it catches and logs its own error, so deleteFile
\* goes on to the state updates either way
DeleteS3Done(i, ok) ==
  /\ i \in DOMAIN ops
  /\ ops[i].kind = "delete"
  /\ s3Objects' = IF ok THEN s3Objects \ {ops[i].key} ELSE s3Objects
  /\ DeleteApplyLocal(ops[i].pid, ops[i].fileId, ops[i].cSel)
  /\ ops' = RemoveAt(ops, i)
  /\ notice' = "none"
  /\ UNCHANGED <<dbProjects, dbFiles, loading, isUploading, uploadingFiles, uploadProgress,
                 nextFileId, pure, statusCalls, recVars>>

\* ----------------------------------------------------------- saveNewProject
\* valid: client, title, due date and description are all filled in
saveNewProject(valid) ==
  /\ ~loading
  /\ IF ~valid
     THEN /\ notice' = "validation"
          /\ UNCHANGED ops
     ELSE /\ CanStart
          /\ nextIds.project - FirstProjectId
               + Len(SelectSeq(ops, LAMBDA o : o.kind = "create")) < MaxProjects
          /\ ops' = Append(ops, [kind |-> "create"])
          /\ notice' = "none"
  /\ formCalls' = formCalls + 1
  /\ UNCHANGED <<dbProjects, dbFiles, s3Objects, loading, projects,
                 selectedProject, isUploading, uploadingFiles, uploadProgress, nextFileId, pure,
                 statusCalls, dbProjectData, dbClients, dbPosts, clients,
                 postedContent, nextIds>>

\* the insert returns the stored row, or fails
SaveNewProjectDone(i, ok) ==
  /\ i \in DOMAIN ops
  /\ ops[i].kind = "create"
  /\ IF ok
     THEN LET id == nextIds.project
          IN /\ dbProjects' = [p \in DOMAIN dbProjects \cup {id} |->
                                 IF p = id THEN NewProjectStatus ELSE dbProjects[p]]
             /\ dbProjectData' = [p \in DOMAIN dbProjectData \cup {id} |->
                                    IF p = id THEN NewProjectData
                                    ELSE dbProjectData[p]]
             /\ nextIds' = [nextIds EXCEPT !.project = @ + 1]
             /\ projects' = [p \in DOMAIN projects \cup {id} |->
                               IF p = id
                               THEN [status |-> dbProjects'[id],
                                     files |-> <<>>,
                                     version |-> dbProjectData'[id].version,
                                     feedback |-> dbProjectData'[id].feedback,
                                     details |-> dbProjectData'[id].details]
                               ELSE projects[p]]
             /\ notice' = "none"
     ELSE /\ notice' = "create_failed"
          /\ UNCHANGED <<dbProjects, dbProjectData, nextIds, projects>>
  /\ ops' = RemoveAt(ops, i)
  /\ UNCHANGED <<dbFiles, s3Objects, loading, selectedProject, isUploading,
                 uploadingFiles, uploadProgress, nextFileId, pure, statusCalls, dbClients,
                 dbPosts, clients, postedContent, formCalls>>

\* --------------------------------------------- the form and delete handlers
\* a table or a list without / with one entry
Without(f, id) == [x \in DOMAIN f \ {id} |-> f[x]]

With(f, id, v) == [x \in DOMAIN f \cup {id} |-> IF x = id THEN v ELSE f[x]]

\* a handler passes its validation and is suspended at its store call
StartCall(op) ==
  /\ CanStart
  /\ ops' = Append(ops, op)
  /\ notice' = "none"

\* a handler returns at its validation, with an alert or without one
Rejected(alert) ==
  /\ ops' = ops
  /\ notice' = alert

\* what the first part of a form or delete handler leaves alone
FormFrame ==
  /\ formCalls' = formCalls + 1
  /\ UNCHANGED <<dbProjects, dbFiles, s3Objects, loading, projects,
                 selectedProject, isUploading, uploadingFiles, uploadProgress, nextFileId, pure,
                 statusCalls, dbProjectData, dbClients, dbPosts, clients,
                 postedContent, nextIds>>

\* what the continuation of a form or delete handler leaves alone
DoneFrame ==
  UNCHANGED <<dbFiles, s3Objects, loading, isUploading, uploadingFiles, uploadProgress,
              nextFileId, pure, statusCalls, formCalls>>

projectVars == <<dbProjects, dbProjectData, projects, selectedProject>>
clientVars == <<dbClients, clients>>
postVars == <<dbPosts, postedContent>>

\* the project a card or the detail view offers to edit or delete
Offered(p) ==
  /\ ~loading
  /\ p \in DOMAIN projects
  /\ HasSel => p = Sel.id

\* updateProject: valid when client, title, due date and description are filled
updateProject(p, valid) ==
  /\ Offered(p)
  /\ IF valid
     THEN StartCall([kind |-> "updateProject", pid |-> p, cSel |-> SelId])
     ELSE Rejected("validation")
  /\ FormFrame

UpdateProjectDone(i, ok) ==
  /\ i \in DOMAIN ops
  /\ ops[i].kind = "updateProject"
  /\ IF ok
     THEN /\ dbProjectData' =
               [p \in DOMAIN dbProjectData |->
                  IF p = ops[i].pid
                  THEN [dbProjectData[p] EXCEPT !.details = "edited"]
                  ELSE dbProjectData[p]]
          /\ projects' =
               [p \in DOMAIN projects |->
                  IF p = ops[i].pid
                  THEN [projects[p] EXCEPT !.details = "edited"]
                  ELSE projects[p]]
          /\ selectedProject' =
               IF ops[i].cSel # NoId /\ ops[i].cSel = ops[i].pid /\ HasSel
               THEN <<[Sel EXCEPT !.details = "edited"]>>
               ELSE selectedProject
          /\ notice' = "project_updated"
     ELSE /\ notice' = "update_failed"
          /\ UNCHANGED <<dbProjectData, projects, selectedProject>>
  /\ ops' = RemoveAt(ops, i)
  /\ UNCHANGED <<dbProjects, nextIds, clientVars, postVars>>
  /\ DoneFrame

\* saveFeedback of the detail view: returns at once for an empty input
saveFeedback(nonEmpty) ==
  /\ ~loading
  /\ HasSel
  /\ IF nonEmpty
     THEN StartCall([kind |-> "feedback", pid |-> Sel.id, cSel |-> SelId])
     ELSE Rejected("none")
  /\ FormFrame

SaveFeedbackDone(i, ok) ==
  /\ i \in DOMAIN ops
  /\ ops[i].kind = "feedback"
  /\ IF ok
     THEN /\ dbProjectData' =
               [p \in DOMAIN dbProjectData |->
                  IF p = ops[i].pid
                  THEN [dbProjectData[p] EXCEPT !.feedback = "text"]
                  ELSE dbProjectData[p]]
          /\ projects' =
               [p \in DOMAIN projects |->
                  IF p = ops[i].pid
                  THEN [projects[p] EXCEPT !.feedback = "text"]
                  ELSE projects[p]]
          /\ selectedProject' =
               IF ops[i].cSel # NoId /\ ops[i].cSel = ops[i].pid /\ HasSel
               THEN <<[Sel EXCEPT !.feedback = "text"]>>
               ELSE selectedProject
          /\ notice' = "feedback_saved"
     ELSE /\ notice' = "feedback_failed"
          /\ UNCHANGED <<dbProjectData, projects, selectedProject>>
  /\ ops' = RemoveAt(ops, i)
  /\ UNCHANGED <<dbProjects, nextIds, clientVars, postVars>>
  /\ DoneFrame

deleteProject(p) ==
  /\ Offered(p)
  /\ StartCall([kind |-> "deleteProject", pid |-> p, cSel |-> SelId])
  /\ FormFrame

DeleteProjectDone(i, ok) ==
  /\ i \in DOMAIN ops
  /\ ops[i].kind = "deleteProject"
  /\ IF ok
     THEN /\ dbProjects' = Without(dbProjects, ops[i].pid)
          /\ dbProjectData' = Without(dbProjectData, ops[i].pid)
          /\ projects' = Without(projects, ops[i].pid)
          /\ selectedProject' =
               IF ops[i].cSel # NoId /\ ops[i].cSel = ops[i].pid
               THEN <<>> ELSE selectedProject
          /\ notice' = "project_deleted"
     ELSE /\ notice' = "delete_failed"
          /\ UNCHANGED projectVars
  /\ ops' = RemoveAt(ops, i)
  /\ UNCHANGED <<nextIds, clientVars, postVars>>
  /\ DoneFrame

\* saveNewClient: returns at once unless name, email and company are filled;
\* its continuation extends the clients value its closure captured
saveNewClient(valid) ==
  /\ ~loading
  /\ IF valid
     THEN /\ nextIds.client - FirstClientId
               + Len(SelectSeq(ops, LAMBDA o : o.kind = "newClient")) < MaxClients
          /\ StartCall([kind |-> "newClient", cClients |-> clients])
     ELSE Rejected("none")
  /\ FormFrame

SaveNewClientDone(i, ok) ==
  /\ i \in DOMAIN ops
  /\ ops[i].kind = "newClient"
  /\ IF ok
     THEN /\ dbClients' = With(dbClients, nextIds.client, "entered")
          /\ clients' = With(ops[i].cClients, nextIds.client, "entered")
          /\ nextIds' = [nextIds EXCEPT !.client = @ + 1]
          /\ notice' = "client_added"
     ELSE /\ notice' = "client_failed"
          /\ UNCHANGED <<clientVars, nextIds>>
  /\ ops' = RemoveAt(ops, i)
  /\ UNCHANGED <<projectVars, postVars>>
  /\ DoneFrame

updateClient(c, valid) ==
  /\ ~loading
  /\ c \in DOMAIN clients
  /\ IF valid
     THEN StartCall([kind |-> "updateClient", id |-> c])
     ELSE Rejected("none")
  /\ FormFrame

UpdateClientDone(i, ok) ==
  /\ i \in DOMAIN ops
  /\ ops[i].kind = "updateClient"
  /\ IF ok
     THEN /\ dbClients' = [c \in DOMAIN dbClients |->
                             IF c = ops[i].id THEN "edited" ELSE dbClients[c]]
          /\ clients' = [c \in DOMAIN clients |->
                           IF c = ops[i].id THEN "edited" ELSE clients[c]]
          /\ notice' = "client_updated"
     ELSE /\ notice' = "client_failed"
          /\ UNCHANGED clientVars
  /\ ops' = RemoveAt(ops, i)
  /\ UNCHANGED <<projectVars, postVars, nextIds>>
  /\ DoneFrame

deleteClient(c) ==
  /\ ~loading
  /\ c \in DOMAIN clients
  /\ StartCall([kind |-> "deleteClient", id |-> c])
  /\ FormFrame

DeleteClientDone(i, ok) ==
  /\ i \in DOMAIN ops
  /\ ops[i].kind = "deleteClient"
  /\ IF ok
     THEN /\ dbClients' = Without(dbClients, ops[i].id)
          /\ clients' = Without(clients, ops[i].id)
          /\ notice' = "client_deleted"
     ELSE /\ notice' = "client_failed"
          /\ UNCHANGED clientVars
  /\ ops' = RemoveAt(ops, i)
  /\ UNCHANGED <<projectVars, postVars, nextIds>>
  /\ DoneFrame

\* saveNewPost with the required-field test left out
saveNewPost_unvalidated(valid) ==
  /\ ~loading
  /\ nextIds.post - FirstPostId
       + Len(SelectSeq(ops, LAMBDA o : o.kind = "newPost")) < MaxPosts
  /\ StartCall([kind |-> "newPost"])
  /\ FormFrame

\* saveNewPost: valid when project title and client are filled
saveNewPost(valid) ==
  /\ ~loading
  /\ IF valid
     THEN /\ nextIds.post - FirstPostId
               + Len(SelectSeq(ops, LAMBDA o : o.kind = "newPost")) < MaxPosts
          /\ StartCall([kind |-> "newPost"])
     ELSE Rejected("validation")
  /\ FormFrame

SaveNewPostDone(i, ok) ==
  /\ i \in DOMAIN ops
  /\ ops[i].kind = "newPost"
  /\ IF ok
     THEN /\ dbPosts' = With(dbPosts, nextIds.post, "entered")
          /\ postedContent' = With(postedContent, nextIds.post, "entered")
          /\ nextIds' = [nextIds EXCEPT !.post = @ + 1]
          /\ notice' = "post_created"
     ELSE /\ notice' = "post_failed"
          /\ UNCHANGED <<postVars, nextIds>>
  /\ ops' = RemoveAt(ops, i)
  /\ UNCHANGED <<projectVars, clientVars>>
  /\ DoneFrame

updatePost(q, valid) ==
  /\ ~loading
  /\ q \in DOMAIN postedContent
  /\ IF valid
     THEN StartCall([kind |-> "updatePost", id |-> q])
     ELSE Rejected("validation")
  /\ FormFrame

UpdatePostDone(i, ok) ==
  /\ i \in DOMAIN ops
  /\ ops[i].kind = "updatePost"
  /\ IF ok
     THEN /\ dbPosts' = [q \in DOMAIN dbPosts |->
                           IF q = ops[i].id THEN "edited" ELSE dbPosts[q]]
          /\ postedContent' = [q \in DOMAIN postedContent |->
                                 IF q = ops[i].id THEN "edited"
                                 ELSE postedContent[q]]
          /\ notice' = "post_updated"
     ELSE /\ notice' = "post_failed"
          /\ UNCHANGED postVars
  /\ ops' = RemoveAt(ops, i)
  /\ UNCHANGED <<projectVars, clientVars, nextIds>>
  /\ DoneFrame

\* deletePost, once the confirm dialog is accepted
deletePost(q) ==
  /\ ~loading
  /\ q \in DOMAIN postedContent
  /\ StartCall([kind |-> "deletePost", id |-> q])
  /\ FormFrame

\* the failure of the store delete is caught and logged by an inner try; the
\* post leaves the list and success is reported either way
DeletePostDone(i, ok) ==
  /\ i \in DOMAIN ops
  /\ ops[i].kind = "deletePost"
  /\ dbPosts' = IF ok THEN Without(dbPosts, ops[i].id) ELSE dbPosts
  /\ postedContent' = Without(postedContent, ops[i].id)
  /\ notice' = "post_deleted"
  /\ ops' = RemoveAt(ops, i)
  /\ UNCHANGED <<projectVars, clientVars, nextIds>>
  /\ DoneFrame

\* --------------------------------------------------------- specifications
\* The workflow: loading, selection and the status handlers, for runs of up
\* to MaxStatusCalls calls of updateProjectStatus.
StatusBudget == statusCalls < MaxStatusCalls

StatusNext ==
  \/ LoadData
  \/ \E p \in FirstProjectId..MaxProjects : ViewProject(p)
  \/ CloseDetail
  \/ StatusBudget /\ \E s \in Statuses : SelectStatus(s)
  \/ StatusBudget /\ AdvanceClick
  \/ StatusBudget /\ RequestChangesClick
  \/ StatusBudget /\ \E p \in FirstProjectId..MaxProjects : ToggleClick(p)
  \/ \E i \in 1..MaxInFlight, ok \in BOOLEAN : StatusServer(i, ok)
  \/ \E i \in 1..MaxInFlight : StatusResponse(i)

Spec == Init /\ [][StatusNext]_vars

\* The guided actions: a store that holds projects in the six statuses,
\* loading, selection and the buttons that change a status without the
\* selector, for runs of up to MaxGuidedCalls calls.
GuidedInit ==
  /\ AppInit
  /\ pure = NoPure
  /\ \E r \in Statuses :
       dbProjects = [p \in FirstProjectId..MaxProjects |->
                       IF p = FirstProjectId THEN r ELSE NewProjectStatus]
  /\ OtherTablesInit

GuidedBudget == statusCalls < MaxGuidedCalls

GuidedNext ==
  \/ LoadData
  \/ \E p \in FirstProjectId..MaxProjects : ViewProject(p)
  \/ CloseDetail
  \/ GuidedBudget /\ AdvanceClick
  \/ GuidedBudget /\ RequestChangesClick
  \/ GuidedBudget /\ \E p \in FirstProjectId..MaxProjects : ToggleClick(p)
  \/ \E i \in 1..MaxInFlight, ok \in BOOLEAN : StatusServer(i, ok)
  \/ \E i \in 1..MaxInFlight : StatusResponse(i)

GuidedSpec == GuidedInit /\ [][GuidedNext]_vars

\* Uploads: a store that already holds MaxProjects draft projects, loading,
\* selection and the upload handler.
FilesInit ==
  /\ AppInit
  /\ pure = NoPure
  /\ dbProjects = [p \in FirstProjectId..MaxProjects |-> NewProjectStatus]
  /\ OtherTablesInit

FilesNext ==
  \/ LoadData
  \/ \E p \in FirstProjectId..MaxProjects : ViewProject(p)
  \/ CloseDetail
  \/ \E files \in Batches : AddFilesClick(files)
  \/ \E files \in Batches : DropFiles(files)
  \/ \E files \in Batches : HeaderUpload(files)
  \/ \E i \in 1..MaxInFlight, ok \in BOOLEAN : UploadS3Done(i, ok)
  \/ \E i \in 1..MaxInFlight, ok \in BOOLEAN : UploadInsertDone(i, ok)

FilesSpec == FilesInit /\ [][FilesNext]_vars

\* The records: a store that holds one project, one client and one post,
\* loading, selection and the form and delete handlers, for runs of up to
\* MaxFormCalls calls.
RecordsInit ==
  /\ AppInit
  /\ pure = NoPure
  /\ dbProjects = [p \in {FirstProjectId} |-> NewProjectStatus]
  /\ dbProjectData = [p \in {FirstProjectId} |-> NewProjectData]
  /\ dbClients = [c \in {FirstClientId} |-> "entered"]
  /\ dbPosts = [q \in {FirstPostId} |-> "entered"]
  /\ nextIds = [project |-> FirstProjectId + 1, client |-> FirstClientId + 1,
                post |-> FirstPostId + 1]

FormBudget == formCalls < MaxFormCalls

RecordsNext ==
  \/ LoadData
  \/ \E p \in FirstProjectId..MaxProjects : ViewProject(p)
  \/ CloseDetail
  \/ FormBudget /\ \E valid \in BOOLEAN : saveNewProject(valid)
  \/ FormBudget /\ \E p \in FirstProjectId..MaxProjects, valid \in BOOLEAN :
       updateProject(p, valid)
  \/ FormBudget /\ \E nonEmpty \in BOOLEAN : saveFeedback(nonEmpty)
  \/ FormBudget /\ \E p \in FirstProjectId..MaxProjects : deleteProject(p)
  \/ FormBudget /\ \E valid \in BOOLEAN : saveNewClient(valid)
  \/ FormBudget /\ \E c \in FirstClientId..MaxClients, valid \in BOOLEAN :
       updateClient(c, valid)
  \/ FormBudget /\ \E c \in FirstClientId..MaxClients : deleteClient(c)
  \/ FormBudget /\ \E valid \in BOOLEAN : saveNewPost(valid)
  \/ FormBudget /\ \E q \in FirstPostId..MaxPosts, valid \in BOOLEAN :
       updatePost(q, valid)
  \/ FormBudget /\ \E q \in FirstPostId..MaxPosts : deletePost(q)
  \/ \E i \in 1..MaxInFlight, ok \in BOOLEAN :
       \/ SaveNewProjectDone(i, ok)
       \/ UpdateProjectDone(i, ok)
       \/ SaveFeedbackDone(i, ok)
       \/ DeleteProjectDone(i, ok)
       \/ SaveNewClientDone(i, ok)
       \/ UpdateClientDone(i, ok)
       \/ DeleteClientDone(i, ok)
       \/ SaveNewPostDone(i, ok)
       \/ UpdatePostDone(i, ok)
       \/ DeletePostDone(i, ok)

RecordsSpec == RecordsInit /\ [][RecordsNext]_vars

\* the files after each of names was uploaded to the project in a batch of
\* its own, one batch after the other
RECURSIVE UploadedInTurn(_, _)
UploadedInTurn(projectId, names) ==
  IF names = <<>> THEN <<>>
  ELSE LET before == UploadedInTurn(projectId, SubSeq(names, 1, Len(names) - 1))
           op == [pid |-> projectId, files |-> <<names[Len(names)]>>, i |-> 1,
                  firstId |-> FirstFileId + Len(names) - 1, existing |-> before]
       IN MergeFiles(before, <<NewFileOf(op)>>)

\* the rows these uploads inserted: each file as it was when it was new
StoredRows(projectId, names) ==
  LET files == UploadedInTurn(projectId, names)
  IN [k \in 1..Len(files) |->
        FileRow(projectId, [files[k] EXCEPT !.isLatest = TRUE])]

\* Deletions: a store and a bucket that hold the files of earlier uploads to
\* the first project, loading, selection and deleteFile.
DeleteInit ==
  /\ ClientInit
  /\ pure = NoPure
  /\ dbProjects = [p \in FirstProjectId..MaxProjects |-> NewProjectStatus]
  /\ \E names \in [1..MaxFiles -> Names] :
       /\ dbFiles = StoredRows(FirstProjectId, names)
       /\ s3Objects = {dbFiles[k].s3_key : k \in 1..Len(dbFiles)}
  /\ nextFileId = LastFileId + 1
  /\ OtherTablesInit

DeleteNext ==
  \/ LoadData
  \/ \E p \in FirstProjectId..MaxProjects : ViewProject(p)
  \/ CloseDetail
  \/ \E k \in 1..MaxFiles : DeleteFileClick(DbRowId(k))
  \/ \E i \in 1..MaxInFlight, ok \in BOOLEAN : DeleteS3Done(i, ok)

DeleteSpec == DeleteInit /\ [][DeleteNext]_vars

\* every network call returns or fails: the response of a request that is
\* waited for arrives
NetworkAnswers ==
  \A i \in 1..MaxInFlight :
    /\ WF_vars(\E ok \in BOOLEAN : UploadS3Done(i, ok))
    /\ WF_vars(\E ok \in BOOLEAN : UploadInsertDone(i, ok))

\* the uploads to the first project, through the Add Files button and the
\* drop zone
UploadNext ==
  \/ LoadData
  \/ ViewProject(FirstProjectId)
  \/ CloseDetail
  \/ \E files \in Batches : AddFilesClick(files)
  \/ \E files \in Batches : DropFiles(files)
  \/ \E i \in 1..MaxInFlight, ok \in BOOLEAN : UploadS3Done(i, ok)
  \/ \E i \in 1..MaxInFlight, ok \in BOOLEAN : UploadInsertDone(i, ok)

UploadLiveSpec == FilesInit /\ [][UploadNext]_vars /\ NetworkAnswers

\* A session of uploads and deletions in the first project: loading,
\* selection, the Add Files button with one file chosen, and the X button of
\* the file rows.
SessionNext ==
  \/ LoadData
  \/ ViewProject(FirstProjectId)
  \/ CloseDetail
  \/ \E name \in Names : AddFilesClick(<<name>>)
  \/ \E i \in 1..MaxInFlight, ok \in BOOLEAN : UploadS3Done(i, ok)
  \/ \E i \in 1..MaxInFlight, ok \in BOOLEAN : UploadInsertDone(i, ok)
  \/ \E fileId \in FirstFileId..LastFileId : DeleteFileClick(fileId)
  \/ \E i \in 1..MaxInFlight, ok \in BOOLEAN : DeleteS3Done(i, ok)

SessionSpec == FilesInit /\ [][SessionNext]_vars

\* ------------------------------------------------- the pure helper functions
\* Inputs are drawn in PureInit; each action applies one helper to them.
V19  == <<"1", ".", "9">>
V110 == <<"1", ".", "1", "0">>
V20  == <<"2", ".", "0">>

PureVersions == {V10, V19, V110, V20}

PureFileLists ==
  UNION {[1..n -> [name : Names, version : PureVersions, isLatest : BOOLEAN]]
           : n \in 0..MaxPureFiles}

\* the list with ids by position
WithIds(list) ==
  [k \in 1..Len(list) |->
     [id |-> FirstFileId + k - 1, name |-> list[k].name,
      version |-> list[k].version, isLatest |-> list[k].isLatest,
      previousVersionId |-> NoId,
      s3Key |-> S3Key(FirstProjectId, FirstFileId + k - 1, list[k].name)]]

PureInit ==
  /\ AppInit
  /\ dbProjects = [p \in {FirstProjectId} |-> NewProjectStatus]
  /\ OtherTablesInit
  /\ \/ \E s \in Statuses : pure = [fn |-> "advance", trail |-> <<s>>]
     \/ \E r \in RawStatuses : pure = [fn |-> "map", raw |-> r, done |-> FALSE,
                                       out |-> ""]
     \/ \E l \in PureFileLists, n \in Names :
          pure = [fn |-> "version", files |-> WithIds(l), name |-> n,
                  done |-> FALSE, out |-> <<>>]
     \/ \E l \in PureFileLists, n \in Names :
          pure = [fn |-> "latest", files |-> WithIds(l), name |-> n,
                  done |-> FALSE, out |-> NoId]

ApplyAdvance ==
  /\ pure.fn = "advance"
  /\ Len(pure.trail) <= MaxWalk
  /\ pure' = [pure EXCEPT
                !.trail = Append(@, getNextWorkflowStatus(pure.trail[Len(pure.trail)]))]
  /\ UNCHANGED <<appVars, statusCalls>>

ApplyMap ==
  /\ pure.fn = "map"
  /\ ~pure.done
  /\ pure' = [pure EXCEPT !.done = TRUE, !.out = mapOldStatusToNew(pure.raw)]
  /\ UNCHANGED <<appVars, statusCalls>>

ApplyNextVersion ==
  /\ pure.fn = "version"
  /\ ~pure.done
  /\ pure' = [pure EXCEPT !.done = TRUE,
                          !.out = getNextVersion(pure.files, pure.name)]
  /\ UNCHANGED <<appVars, statusCalls>>

ApplyLatest ==
  /\ pure.fn = "latest"
  /\ ~pure.done
  /\ pure' = [pure EXCEPT !.done = TRUE,
                          !.out = getLatestFileVersion(pure.files, pure.name)]
  /\ UNCHANGED <<appVars, statusCalls>>

PureNext == ApplyAdvance \/ ApplyMap \/ ApplyNextVersion \/ ApplyLatest

PureSpec == PureInit /\ [][PureNext]_vars

\* =================================================================== claims

\* The advance table of the workflow, pair by pair.
ExpectedAdvance ==
  {<<"draft", "editor_review">>, <<"editor_review", "client_review">>,
   <<"client_review", "approved">>, <<"needs_revision", "editor_review">>,
   <<"approved", "final_delivered">>, <<"final_delivered", "final_delivered">>}

\* C1: getNextWorkflowStatus is total over the six statuses and follows the
\* advance table exactly; a walk from draft passes draft, editor_review,
\* client_review, approved; only final_delivered is mapped to itself.
C1_AdvanceTable ==
  pure.fn = "advance" =>
    /\ \A k \in 1..(Len(pure.trail) - 1) :
         /\ pure.trail[k + 1] \in Statuses
         /\ <<pure.trail[k], pure.trail[k + 1]>> \in ExpectedAdvance
         /\ (pure.trail[k + 1] = pure.trail[k] => pure.trail[k] = "final_delivered")
    /\ (pure.trail[1] = "draft" /\ Len(pure.trail) >= 4) =>
         SubSeq(pure.trail, 1, 4) =
           <<"draft", "editor_review", "client_review", "approved">>

\* a project status walked from draft through three advances
C1_Witness ==
  /\ pure.fn = "advance"
  /\ pure.trail[1] = "draft"
  /\ Len(pure.trail) >= 4
  /\ pure.trail[4] = "approved"

\* the numeric value of the sample version strings, and their successors
VersionValue(v) ==
  CASE v = V10  -> <<1, 0>>
    [] v = V19  -> <<1, 9>>
    [] v = V110 -> <<1, 10>>
    [] v = V20  -> <<2, 0>>

NextVersionString(v) ==
  CASE v = V10  -> <<"1", ".", "1">>
    [] v = V19  -> <<"1", ".", "1", "0">>
    [] v = V110 -> <<"1", ".", "1", "1">>
    [] v = V20  -> <<"2", ".", "1">>

PairLeq(a, b) == a[1] < b[1] \/ (a[1] = b[1] /\ a[2] <= b[2])

\* C6: getNextVersion returns "1.0" when no file has the name, and otherwise
\* major.(minor+1) of the numerically greatest (major, minor) among the files
\* of that name; the major component is never incremented.
C6_NextVersion ==
  (pure.fn = "version" /\ pure.done) =>
    LET same == {k \in 1..Len(pure.files) : pure.files[k].name = pure.name}
    IN IF same = {} THEN pure.out = V10
       ELSE \E k \in same :
              /\ \A j \in same : PairLeq(VersionValue(pure.files[j].version),
                                         VersionValue(pure.files[k].version))
              /\ pure.out = NextVersionString(pure.files[k].version)

\* versions 1.9 and 1.10 of one name give 1.11
C6_Witness ==
  /\ pure.fn = "version"
  /\ pure.done
  /\ pure.out = <<"1", ".", "1", "1">>
  /\ \E k \in 1..Len(pure.files) :
       pure.files[k].name = pure.name /\ pure.files[k].version = V19

\* C2: the status of every in-memory project (in the list and in the detail
\* view) is always one of the six workflow statuses.
C2_StatusInSix ==
  /\ \A p \in DOMAIN projects : projects[p].status \in Statuses
  /\ HasSel => Sel.status \in Statuses

\* C3: a failed store write of updateProjectStatus changes no in-memory
\* status, and a status in the projects list changes only when a write of
\* that status for that project has succeeded.
C3_FailedWriteKeepsStatus ==
  [][/\ \A i \in DOMAIN ops :
          (ops[i].kind = "status" /\ ops[i].stage = "err" /\ StatusResponse(i))
            => (projects' = projects /\ selectedProject' = selectedProject)
     /\ \A i \in DOMAIN ops :
          (ops[i].kind = "status" /\ StatusServer(i, FALSE))
            => (dbProjects' = dbProjects /\ projects' = projects
                /\ selectedProject' = selectedProject)
     /\ \A p \in DOMAIN projects :
          (p \in DOMAIN projects' /\ projects'[p].status # projects[p].status)
            => \E i \in DOMAIN ops :
                 /\ ops[i].kind = "status"
                 /\ ops[i].stage = "ok"
                 /\ ops[i].pid = p
                 /\ ops[i].status = projects'[p].status]_vars

\* the only status update of the run failed and its failure was reported
C3_Witness ==
  /\ notice = "status_failed"
  /\ statusCalls = 1
  /\ ops = <<>>
  /\ HasSel
  /\ projects[Sel.id].status = Sel.status

\* C10: Request Changes is taken only while the detail view shows
\* editor_review or client_review; it asks for needs_revision, and when the
\* store write succeeds the store and then the project hold needs_revision.
C10_RequestChanges ==
  [][/\ RequestChangesClick =>
          /\ HasSel
          /\ Sel.status \in {"editor_review", "client_review"}
          /\ ops'[Len(ops')].pid = Sel.id
          /\ ops'[Len(ops')].status = "needs_revision"
     /\ \A i \in DOMAIN ops :
          (ops[i].kind = "status" /\ ops[i].via = "request") =>
            /\ ops[i].status = "needs_revision"
            /\ StatusServer(i, TRUE) => dbProjects'[ops[i].pid] = "needs_revision"
            /\ (ops[i].stage = "ok" /\ StatusResponse(i)) =>
                 projects'[ops[i].pid].status = "needs_revision"]_vars

\* a Request Changes whose write has succeeded, taken from a review status
C10_Witness ==
  \E i \in DOMAIN ops :
    /\ ops[i].kind = "status"
    /\ ops[i].via = "request"
    /\ ops[i].stage = "ok"
    /\ dbProjects[ops[i].pid] = "needs_revision"
    /\ projects[ops[i].pid].status \in {"editor_review", "client_review"}

\* ------------------------------------------------------------ file claims
VersionLeq(a, b) == PairLeq(ParseVersion(a), ParseVersion(b))

SameNamed(files, name) == {k \in 1..Len(files) : files[k].name = name}

\* C4: for every project and every name with a file in its list, exactly one
\* of the same-named files is flagged isLatest, and it has the highest version.
C4_ExactlyOneLatest ==
  \A p \in DOMAIN projects : \A n \in Names :
    LET files == projects[p].files
        same == SameNamed(files, n)
    IN same # {} =>
         \E k \in same :
           /\ files[k].isLatest
           /\ \A j \in same \ {k} : ~files[j].isLatest
           /\ \A j \in same : VersionLeq(files[j].version, files[k].version)

\* C5: the k-th file stored under a (project, name) carries version 1.(k-1),
\* and no two same-named files of a project carry the same version.
C5_VersionsIncrease ==
  /\ \A p \in DOMAIN dbProjects : \A n \in Names :
       LET rows == SelectSeq(dbFiles, LAMBDA r : r.project_id = p /\ r.name = n)
       IN \A k \in 1..Len(rows) : rows[k].version = <<"1", ".">> \o NumToStr(k - 1)
  /\ \A p \in DOMAIN projects :
       \A j, k \in 1..Len(projects[p].files) :
         (j # k /\ projects[p].files[j].name = projects[p].files[k].name)
           => projects[p].files[j].version # projects[p].files[k].version

\* the step of handleFileUpload that ends a successful batch
UploadCompletes(i) ==
  /\ ops[i].kind = "upload"
  /\ ops[i].stage = "insert"
  /\ ops[i].i = Len(ops[i].files)
  /\ UploadInsertDone(i, TRUE)

LastIndexOf(files, name) ==
  CHOOSE k \in SameNamed([j \in 1..Len(files) |-> [name |-> files[j]]], name) :
    \A j \in SameNamed([m \in 1..Len(files) |-> [name |-> files[m]]], name) : j <= k

\* C7: when a batch completes, for every name uploaded in it exactly one
\* file of that name in the project's list is flagged isLatest, it is the one
\* uploaded last under that name, and every file of that name that was there
\* before is not flagged.
C7_BatchLatest ==
  [][\A i \in DOMAIN ops :
       (UploadCompletes(i) /\ ops[i].pid \in DOMAIN projects) =>
         LET op == ops[i]
             old == projects[op.pid].files
             new == projects'[op.pid].files
         IN \A k \in 1..Len(op.files) :
              LET flagged == {j \in SameNamed(new, op.files[k]) : new[j].isLatest}
              IN /\ Cardinality(flagged) = 1
                 /\ \A j \in flagged :
                      new[j].id = op.firstId + LastIndexOf(op.files, op.files[k]) - 1
                 /\ \A j \in SameNamed(old, op.files[k]) : ~new[j].isLatest]_vars

\* C8: the record built for an uploaded file points, as previousVersionId, at
\* a file of the same name in the project that is flagged isLatest at that
\* moment (in the list, or uploaded earlier in the same batch), and has no
\* previousVersionId when there is none.
C8_PreviousVersion ==
  [][\A i \in DOMAIN ops :
       (ops[i].kind = "upload" /\ ops[i].stage = "s3" /\ UploadS3Done(i, TRUE)) =>
         LET op == ops[i]
             name == op.files[op.i]
             new == ops'[i].newFiles[Len(ops'[i].newFiles)]
             cur == IF op.pid \in DOMAIN projects THEN projects[op.pid].files
                    ELSE <<>>
             flagged == {cur[j].id : j \in {k \in SameNamed(cur, name) : cur[k].isLatest}}
                          \cup {op.newFiles[j].id : j \in SameNamed(op.newFiles, name)}
         IN IF flagged = {} THEN new.previousVersionId = NoId
            ELSE new.previousVersionId \in flagged]_vars

\* a step of an upload handler after its start
UploadStep(i) ==
  /\ ops[i].kind = "upload"
  /\ \E ok \in BOOLEAN : UploadS3Done(i, ok) \/ UploadInsertDone(i, ok)

NamesOf(files) == {files[k] : k \in 1..Len(files)}

\* files kept as they were, at their place, unless they are files of
\* project p with a name in names
UploadFrame(p, names) ==
  /\ \A q \in DOMAIN projects :
       /\ q \in DOMAIN projects'
       /\ \A k \in 1..Len(projects[q].files) :
            (q # p \/ projects[q].files[k].name \notin names) =>
              /\ k <= Len(projects'[q].files)
              /\ projects'[q].files[k] = projects[q].files[k]
  /\ HasSel =>
       /\ selectedProject' # <<>>
       /\ selectedProject'[1].id = Sel.id
       /\ \A k \in 1..Len(Sel.files) :
            (Sel.id # p \/ Sel.files[k].name \notin names) =>
              /\ k <= Len(selectedProject'[1].files)
              /\ selectedProject'[1].files[k] = Sel.files[k]

\* C9: an upload to project p leaves the version, isLatest and
\* previousVersionId of every file with a name not uploaded (compared
\* case-sensitively) and of every file of another project as they were.
C9_UploadFrame ==
  [][\A i \in DOMAIN ops :
       UploadStep(i) => UploadFrame(ops[i].pid, NamesOf(ops[i].files))]_vars

\* the same name was uploaded to one project and then to another, and the
\* file of the first is still as its upload left it
C9_Witness ==
  \E p, q \in DOMAIN projects :
    /\ p # q
    /\ Len(projects[p].files) = 1
    /\ Len(projects[q].files) = 1
    /\ projects[p].files[1].name = projects[q].files[1].name
    /\ projects[p].files[1].id < projects[q].files[1].id
    /\ projects[p].files[1].isLatest
    /\ projects[q].files[1].isLatest

\* --------------------------------------------------- workflow claims, again
\* the detail view is open and a further call can start
SelectorOpen ==
  /\ HasSel
  /\ Sel.status \in Statuses
  /\ CanStart
  /\ statusCalls < MaxStatusCalls

\* C11: the status selector checks no legality: from every shown status each
\* of the five other statuses can be selected, the request asks for exactly
\* that status, and when the store write succeeds the store row and then the
\* project in the list hold it.
C11_SelectorUnconstrained ==
  [][/\ SelectorOpen =>
          \A s \in Statuses \ {Sel.status} : ENABLED SelectStatus(s)
     /\ \A s \in Statuses :
          SelectStatus(s) =>
            /\ ops'[Len(ops')].pid = Sel.id
            /\ ops'[Len(ops')].status = s
     /\ \A i \in DOMAIN ops :
          (ops[i].kind = "status" /\ ops[i].via = "select") =>
            /\ StatusServer(i, TRUE) => dbProjects'[ops[i].pid] = ops[i].status
            /\ (ops[i].stage = "ok" /\ StatusResponse(i)) =>
                 projects'[ops[i].pid].status = ops[i].status]_vars

\* draft selected for a delivered project, and the store has taken it
C11_Witness ==
  \E i \in DOMAIN ops :
    /\ ops[i].kind = "status"
    /\ ops[i].via = "select"
    /\ ops[i].stage = "ok"
    /\ ops[i].status = "draft"
    /\ dbProjects[ops[i].pid] = "draft"
    /\ projects[ops[i].pid].status = "final_delivered"

\* a status change the two guided actions allow: a step of the advance table
\* or a review sent back for changes
GuidedChange(old, new) ==
  \/ <<old, new>> \in ExpectedAdvance
  \/ (old \in {"editor_review", "client_review"} /\ new = "needs_revision")

\* C13: every change of a project's status (one of the six) made by a UI
\* action other than the selector is a step of the advance table or goes from
\* editor_review/client_review to needs_revision, and none leaves
\* final_delivered.
C13_GuidedActions ==
  [][\A i \in DOMAIN ops :
       (/\ ops[i].kind = "status"
        /\ ops[i].via # "select"
        /\ ops[i].stage = "ok"
        /\ StatusResponse(i)
        /\ ops[i].pid \in DOMAIN projects
        /\ projects[ops[i].pid].status \in Statuses
        /\ projects'[ops[i].pid].status # projects[ops[i].pid].status)
       => /\ GuidedChange(projects[ops[i].pid].status, projects'[ops[i].pid].status)
          /\ projects[ops[i].pid].status # "final_delivered"]_vars

\* the legacy mapping as stated: two renamed values, the six statuses kept,
\* and draft for anything else
ExpectedLegacy(raw) ==
  IF raw = "in_progress" THEN "draft"
  ELSE IF raw = "pending_review" THEN "client_review"
  ELSE IF raw \in Statuses THEN raw
  ELSE "draft"

\* C14: mapOldStatusToNew maps in_progress to draft, pending_review to
\* client_review, each of the six statuses (approved among them) to itself,
\* and every other stored value, unrecognized, empty or missing, to draft.
C14_LegacyMapping ==
  (pure.fn = "map" /\ pure.done) => pure.out = ExpectedLegacy(pure.raw)

\* ------------------------------------------------------ file claims, again
\* C18: deleteFile takes a file out of the in-memory lists only when the
\* object with the file's storage key has been deleted from the bucket; when
\* that delete fails the lists stay as they were.
C18_DeleteRemovesObject ==
  [][\A i \in DOMAIN ops :
       (/\ ops[i].kind = "delete"
        /\ \E ok \in BOOLEAN : DeleteS3Done(i, ok)
        /\ (projects' # projects \/ selectedProject' # selectedProject))
       => ops[i].key \notin s3Objects']_vars

\* the upload of op's current file fails at the bucket or at the store
UploadFails(i) ==
  /\ ops[i].kind = "upload"
  /\ UploadS3Done(i, FALSE) \/ UploadInsertDone(i, FALSE)

\* C19: when the object upload or the record insert of a file of a batch
\* fails, the batch ends there: its later files are never uploaded or
\* inserted, and the objects and rows stored for its earlier files stay
\* (objects and rows are only ever added for the current file of a batch that
\* is still running).
C19_BatchAborts ==
  [][/\ \A i \in DOMAIN ops :
          UploadFails(i) =>
            /\ ops' = RemoveAt(ops, i)
            /\ dbFiles' = dbFiles
            /\ s3Objects' = s3Objects
     /\ \A key \in s3Objects' \ s3Objects :
          \E i \in DOMAIN ops :
            /\ ops[i].kind = "upload"
            /\ ops[i].stage = "s3"
            /\ key = S3Key(ops[i].pid, FileIdOf(ops[i]), ops[i].files[ops[i].i])
     /\ dbFiles' # dbFiles =>
          \E i \in DOMAIN ops :
            /\ ops[i].kind = "upload"
            /\ ops[i].stage = "insert"
            /\ dbFiles' = Append(dbFiles,
                 [project_id |-> ops[i].pid,
                  name |-> ops[i].files[ops[i].i],
                  version |-> ops[i].newFiles[ops[i].i].version,
                  is_latest |-> TRUE,
                  previous_version_id |-> ops[i].newFiles[ops[i].i].previousVersionId,
                  s3_key |-> S3Key(ops[i].pid, FileIdOf(ops[i]),
                                   ops[i].files[ops[i].i])])]_vars

\* a batch of two files has ended at its second file: the first file's object
\* and row are stored and nothing of the second is
C19_Witness ==
  /\ notice = "upload_failed"
  /\ ops = <<>>
  /\ nextFileId = FirstFileId + 2
  /\ Len(dbFiles) = 1
  /\ dbFiles[1].s3_key \in s3Objects
  /\ \A key \in s3Objects : key[2] = FirstFileId
  /\ \A p \in DOMAIN projects : projects[p].files = <<>>

\* the files of op whose object upload and record insert are both done
CompletedOf(op) ==
  IF op.stage = "insert"
  THEN SubSeq(op.newFiles, 1, Len(op.newFiles) - 1)
  ELSE op.newFiles

\* C20: when a batch fails part-way, the files it had completed are in the
\* project's in-memory file list.
C20_PartialSuccessVisible ==
  [][\A i \in DOMAIN ops :
       (UploadFails(i) /\ ops[i].pid \in DOMAIN projects) =>
         \A k \in 1..Len(CompletedOf(ops[i])) :
           \E j \in 1..Len(projects'[ops[i].pid].files) :
             projects'[ops[i].pid].files[j].id = CompletedOf(ops[i])[k].id]_vars

\* C12: a project's status becomes needs_revision only through a successful
\* request of the selector or of Request Changes, and Request Changes is
\* taken only while the project is in editor_review or client_review;
\* loading yields needs_revision only for a stored needs_revision.
C12_NeedsRevisionOrigin ==
  [][/\ \A p \in DOMAIN projects :
          (/\ p \in DOMAIN projects'
           /\ projects'[p].status = "needs_revision"
           /\ projects[p].status # "needs_revision")
          => \E i \in DOMAIN ops :
               /\ ops[i].kind = "status"
               /\ ops[i].pid = p
               /\ ops[i].stage = "ok"
               /\ ops[i].via \in {"select", "request"}
               /\ StatusResponse(i)
     /\ RequestChangesClick =>
          projects[Sel.id].status \in {"editor_review", "client_review"}
     /\ LoadData =>
          \A p \in DOMAIN projects' :
            projects'[p].status = "needs_revision" => dbProjects[p] = "needs_revision"]_vars

\* --------------------------------------------------------------------- C15
\* the in-memory project id is as saveNewProject builds it
StartsAsDraft(project) ==
  /\ project.status = "draft"
  /\ project.version = 1
  /\ project.feedback = NullFeedback
  /\ project.files = <<>>

\* C15: every project created by saveNewProject starts in status draft, in
\* the row written to the store and in the in-memory project added to the
\* list, with version 1, no feedback and an empty file list: whenever a step
\* adds a row to the projects table, the row is a draft of version 1 without
\* feedback and the list gains the same project as a draft of version 1
\* without feedback and without files.
C15_CreatedAsDraft ==
  [][\A id \in FirstProjectId..MaxProjects :
       (id \notin DOMAIN dbProjects /\ id \in DOMAIN dbProjects') =>
         /\ dbProjects'[id] = "draft"
         /\ dbProjectData'[id].version = 1
         /\ dbProjectData'[id].feedback = NullFeedback
         /\ id \notin DOMAIN projects
         /\ id \in DOMAIN projects'
         /\ StartsAsDraft(projects'[id])]_vars

\* a project was created next to the stored one and is in the list
C15_Witness ==
  /\ ops = <<>>
  /\ \E id \in DOMAIN projects :
       /\ id > FirstProjectId
       /\ id \in DOMAIN dbProjects
       /\ StartsAsDraft(projects[id])

\* --------------------------------------------------------------------- C16
\* a call of one of the six validating handlers with a required field empty
InvalidCall ==
  \/ saveNewProject(FALSE)
  \/ \E p \in FirstProjectId..MaxProjects : updateProject(p, FALSE)
  \/ saveNewPost(FALSE)
  \/ \E q \in FirstPostId..MaxPosts : updatePost(q, FALSE)
  \/ saveNewClient(FALSE)
  \/ \E c \in FirstClientId..MaxClients : updateClient(c, FALSE)

\* C16: validation failures are rejected before any network call and leave
\* all state unchanged: saveNewProject, updateProject, saveNewPost,
\* updatePost, saveNewClient and updateClient called with a required field
\* empty issue no store request (no call is left in flight and no table
\* changes) and do not modify the in-memory project, post or client lists.
C16_ValidationRejects ==
  [][InvalidCall =>
       /\ ops' = ops
       /\ UNCHANGED <<dbProjects, dbProjectData, dbClients, dbPosts, dbFiles,
                      s3Objects>>
       /\ UNCHANGED <<projects, selectedProject, clients, postedContent>>]_vars

\* a form was submitted with a required field empty over loaded lists and
\* its alert is up
C16_Witness ==
  /\ notice = "validation"
  /\ formCalls > 0
  /\ ops = <<>>
  /\ DOMAIN projects # {}
  /\ DOMAIN clients # {}
  /\ DOMAIN postedContent # {}

\* --------------------------------------------------------------------- C17
\* the store call of a single-step operation of the records fails
FailedStoreCall ==
  \E i \in 1..MaxInFlight :
    \/ SaveFeedbackDone(i, FALSE)
    \/ DeleteProjectDone(i, FALSE)
    \/ UpdateProjectDone(i, FALSE)
    \/ SaveNewClientDone(i, FALSE)
    \/ UpdateClientDone(i, FALSE)
    \/ DeleteClientDone(i, FALSE)
    \/ SaveNewPostDone(i, FALSE)
    \/ UpdatePostDone(i, FALSE)
    \/ DeletePostDone(i, FALSE)

FailureNotices ==
  {"feedback_failed", "delete_failed", "update_failed", "client_failed",
   "post_failed"}

\* C17: when the store call of a single-step operation (saveFeedback,
\* deleteProject, updateProject, saveNewClient, updateClient, deleteClient,
\* saveNewPost, updatePost, deletePost) fails, the in-memory project, client
\* and post lists are left exactly as they were and the failure is reported
\* to the user.
C17_FailedCallKeepsLists ==
  [][FailedStoreCall =>
       /\ UNCHANGED <<projects, selectedProject, clients, postedContent>>
       /\ notice' \in FailureNotices]_vars

\* --------------------------------------------------------------------- C21
\* the object key of the m-th file of an upload call
KeyOfFile(op, m) == S3Key(op.pid, op.firstId + m - 1, op.files[m])

HasRow(key) == \E k \in 1..Len(dbFiles) : dbFiles[k].s3_key = key

\* C21: within one handleFileUpload call files are processed strictly one at
\* a time in the order selected: while the call is at file i, the object and
\* the row of every file before i are stored, no object and no row of a
\* file after i exists, and file i has no row before its object is stored.
C21_OneAtATime ==
  \A j \in DOMAIN ops :
    ops[j].kind = "upload" =>
      \A m \in 1..Len(ops[j].files) :
        /\ m < ops[j].i =>
             KeyOfFile(ops[j], m) \in s3Objects /\ HasRow(KeyOfFile(ops[j], m))
        /\ m > ops[j].i =>
             KeyOfFile(ops[j], m) \notin s3Objects /\ ~HasRow(KeyOfFile(ops[j], m))
        /\ m = ops[j].i =>
             /\ ~HasRow(KeyOfFile(ops[j], m))
             /\ KeyOfFile(ops[j], m) \in s3Objects <=> ops[j].stage = "insert"

\* the upload of the second file of a batch is under way, the first file's
\* object and row being stored
C21_Witness ==
  \E j \in DOMAIN ops :
    /\ ops[j].kind = "upload"
    /\ ops[j].i = 2
    /\ ops[j].stage = "s3"
    /\ HasRow(KeyOfFile(ops[j], 1))

\* --------------------------------------------------------------------- C22
\* the call at position i stores the row of a file whose name the project's
\* list already held when the call was made
InsertsNewVersion(i) ==
  /\ i \in DOMAIN ops
  /\ UploadInsertDone(i, TRUE)
  /\ \E k \in 1..Len(ops[i].existing) :
       ops[i].existing[k].name = ops[i].files[ops[i].i]

\* C22: on upload of a name that already exists in the project, is_latest
\* is false on every existing same-named row of the relational store once
\* the new row with is_latest = true is inserted, so that no two rows of the
\* same (project, name) read as latest.
C22_SupersededFlipped ==
  [][\A i \in 1..MaxInFlight :
       InsertsNewVersion(i) =>
         \A k \in 1..Len(dbFiles) :
           (/\ dbFiles[k].project_id = ops[i].pid
            /\ dbFiles[k].name = ops[i].files[ops[i].i])
             => ~dbFiles'[k].is_latest]_vars

\* --------------------------------------------------------------------- C23
\* C23: through the upload entry points of the UI no two uploads of the same
\* file name for the same project are in flight at the same time, so no two
\* such uploads compute their version from the same file list.
C23_NoSameNameRace ==
  \A i, j \in DOMAIN ops :
    (/\ i # j
     /\ ops[i].kind = "upload"
     /\ ops[j].kind = "upload"
     /\ ops[i].pid = ops[j].pid)
      => NamesIn(ops[i].files) \cap NamesIn(ops[j].files) = {}

\* --------------------------------------------------------------------- C24
\* new is old without the file fileId, every other record as it was
KeptAsIs(old, new, fileId) ==
  /\ Len(new) = Cardinality({k \in 1..Len(old) : old[k].id # fileId})
  /\ \A k \in 1..Len(new) :
       \E j \in 1..Len(old) : old[j] = new[k] /\ old[j].id # fileId

\* deleteFile of fileId runs to its end in this step
DeleteFileEnds(fileId) ==
  \/ DeleteFileClick(fileId) /\ ops' = ops
  \/ \E i \in 1..MaxInFlight :
       /\ i \in DOMAIN ops
       /\ ops[i].kind = "delete"
       /\ ops[i].fileId = fileId
       /\ \E ok \in BOOLEAN : DeleteS3Done(i, ok)

Completes(i) ==
  /\ i \in DOMAIN ops
  /\ ops[i].kind \in {"status", "upload"}
  /\ ops' = RemoveAt(ops, i)

\* C25: when a status update or a file upload issued for project P completes
\* while the detail view shows a different project Q, the selected project
\* is not modified: Q's status and file list stay those of Q.
C25_OtherDetailUntouched ==
  [][\A i \in 1..MaxInFlight :
       (Completes(i) /\ HasSel /\ Sel.id # ops[i].pid)
         => selectedProject' = selectedProject]_vars

\* --------------------------------------------------------------------- C26
\* C26: for every project, once all issued updateProjectStatus calls have
\* completed, the in-memory status equals the status held in the relational
\* store, whatever the interleaving of the calls in flight together and the
\* order in which their responses arrive.
C26_StatusConverges ==
  (statusCalls > 0 /\ ops = <<>>) =>
    \A p \in DOMAIN projects : projects[p].status = dbProjects[p]

\* --------------------------------------------------------------------- C27
\* C27: whenever a project is selected and no operation is in flight,
\* selectedProject mirrors the entry with the same id in the projects list:
\* same status, same feedback and the same file list with the same isLatest
\* flags.
C27_SelectedMirrorsList ==
  (HasSel /\ ops = <<>> /\ Sel.id \in DOMAIN projects) =>
    /\ Sel.status = projects[Sel.id].status
    /\ Sel.feedback = projects[Sel.id].feedback
    /\ Sel.files = projects[Sel.id].files

\* --------------------------------------------------------------------- C28
\* C28: after deleteFile has removed a file from the in-memory lists, the
\* file's row no longer exists in the relational store, so a reload of the
\* project's files (loadFilesForProject returns every row of the project) does
\* not return the deleted file.
C28_DeletedRowGone ==
  [][\A i \in 1..MaxInFlight :
       (/\ i \in DOMAIN ops
        /\ ops[i].kind = "delete"
        /\ \E ok \in BOOLEAN : DeleteS3Done(i, ok))
       => \A k \in 1..Len(dbFiles') :
            dbFiles'[k].project_id = ops[i].pid
              => dbFiles'[k].s3_key # ops[i].key]_vars

\* --------------------------------------------------------------------- C29
\* C29: after any sequence of uploads and file deletions, every file's
\* previousVersionId, when set, is the id of a file that still exists in
\* the same project with the same name and a strictly lower version.
C29_PreviousVersionExists ==
  \A p \in DOMAIN projects :
    LET files == projects[p].files
    IN \A k \in 1..Len(files) :
         files[k].previousVersionId # NoId =>
           \E j \in 1..Len(files) :
             /\ files[j].id = files[k].previousVersionId
             /\ files[j].name = files[k].name
             /\ VersionLeq(files[j].version, files[k].version)
             /\ files[j].version # files[k].version

\* --------------------------------------------------------------------- C30
\* the handleFileUpload call that was given the file ids from id on
InFlight(id) ==
  \E j \in DOMAIN ops : ops[j].kind = "upload" /\ ops[j].firstId = id

\* a handleFileUpload call returns in this step
UploadReturns ==
  \E i \in 1..MaxInFlight :
    /\ i \in DOMAIN ops
    /\ ops[i].kind = "upload"
    /\ ops' = RemoveAt(ops, i)

\* C30: every handleFileUpload call that starts with at least one file
\* eventually finishes, provided each network call returns or fails, and
\* when it finishes (all files uploaded, or an upload or insert failed) the
\* upload state is reset: isUploading is false, uploadingFiles is empty and
\* uploadProgress is empty.
C30_UploadFinishesAndResets ==
  /\ \A id \in FirstFileId..LastFileId : InFlight(id) ~> ~InFlight(id)
  /\ [][UploadReturns =>
          /\ isUploading' = FALSE
          /\ uploadingFiles' = <<>>
          /\ uploadProgress' = NoProgress]_vars

\* a handleFileUpload call has failed and returned, and the upload state is
\* reset
C30_Witness ==
  /\ notice = "upload_failed"
  /\ ~isUploading
  /\ uploadProgress = NoProgress
  /\ nextFileId > FirstFileId

====
